---- MODULE Spec2Model ----
(***************************************************************************)
(* A model of lib/connection.js: the Connection object that wraps the      *)
(* mongodb driver's Db and Server handles behind bluebird promises.        *)
(*                                                                         *)
(* The driver is the environment.  It is modelled as the 1.x callback      *)
(* driver the file is written against (Db/Server constructors,             *)
(* promisifyAll): every promisified call completes later with success or   *)
(* with an error passed to its callback, which bluebird turns into an      *)
(* operational rejection; close always completes without error; the        *)
(* un-promisified collection.ensureIndex either returns or throws.         *)
(*                                                                         *)
(* One action is one run-to-completion piece of JavaScript: a public call  *)
(* up to its return, or the handler that bluebird runs when a driver call  *)
(* completes.  Handlers that wait for another promise of the same call     *)
(* (nodeify, Promise.all(...).then) are tasks of their own.                *)
(***************************************************************************)
EXTENDS Naturals, Sequences, FiniteSets, TLC

\* Bounds of the model.
MaxInFlight == 2   \* public calls concurrent callers have in flight at once
MaxIndexes == 2    \* longest list of index specs handed to a call
MaxHistory == 3    \* lifecycle calls of a single caller that are remembered

\* JavaScript values.
Undefined == "undefined"
Null == "null"
Falsy(v) == v \in {Undefined, Null, ""}
Or(v, w) == IF Falsy(v) THEN w ELSE v

\* What the callers may configure.
Users == {Undefined, "user"}
Passwords == {Undefined, "secret"}

\* Errors the driver passes to a callback; promisify marks them operational.
OpenError == "OpenError"
AuthError == "AuthError"
CreateError == "CreateError"
DropError == "DropError"
OperationalErrors == {OpenError, AuthError, CreateError, DropError}
IsOperational(v) == v \in OperationalErrors
\* What the un-promisified collection.ensureIndex throws for a definition.
IndexError(index) == "IndexError:" \o index
GenericAuthError == "Could not authenticate the User/Password combination provided."
\* The value the driver hands to dropCollection's callback on success.
DropResult == "true"

\* Index specs a caller may list, as JavaScript objects; arrays are tagged
\* so that reading a property of an array can be told from reading one of
\* a spec.
IndexSpecs ==
  { [type |-> "object", index |-> "a", options |-> "unique"],
    [type |-> "object", index |-> "b", options |-> "sparse"] }
JsArray(elems) == [type |-> "array", elems |-> elems]
Prop(v, key) == IF v.type = "object" THEN v[key] ELSE Undefined
IndexLists == UNION { [1..n -> IndexSpecs] : n \in 0..MaxIndexes }
\* Index definitions the server refuses.
BadIndexes == {"b"}

\* The public calls, one slot each, and the promises they create.
Ops == {"open", "close", "authenticate", "createCollection",
        "dropCollection", "ensureIndexes"}
Promises == Ops \cup {"open.authenticate", "createCollection.ensureIndexes"}
AuthSlots == {"open", "authenticate"}
EnsureSlots == {"createCollection", "ensureIndexes"}
\* The promise authenticate() builds when called from slot s, and the one
\* ensureIndexes() builds.
AuthP(s) == IF s = "open" THEN "open.authenticate" ELSE "authenticate"
EnsureP(s) ==
  IF s = "createCollection" THEN "createCollection.ensureIndexes"
  ELSE "ensureIndexes"

VARIABLES
  config,     \* this.config
  server,     \* this.server
  database,   \* this.database
  connected,  \* the driver's transport state
  callers,    \* "single": a call is made only when no other is in flight
  promise,    \* promise |-> [st, val]
  cbGiven,    \* op |-> whether the caller passed cb
  cbLog,      \* op |-> the error arguments cb was invoked with, in order
  calls,      \* op |-> the driver calls the op issued, with their results
  args,       \* op |-> the indexes argument (as a JavaScript array)
  tasks,      \* handlers waiting to run
  history     \* the run of open/close calls a single caller has made, each
              \* made after the one before it completed without error

vars == <<config, server, database, connected, callers, promise,
          cbGiven, cbLog, calls, args, tasks, history>>

----------------------------------------------------------------------------
\* Promises, tasks and the driver-call log.

NoPromise == [st |-> "none", val |-> Undefined]
Pending == [st |-> "pending", val |-> Undefined]
Settle(P, p, st, v) ==
  IF P[p].st = "pending" THEN [P EXCEPT ![p] = [st |-> st, val |-> v]] ELSE P
Resolve(P, p, v) == Settle(P, p, "resolved", v)
Reject(P, p, v) == Settle(P, p, "rejected", v)

Task(o, k, v) == [op |-> o, k |-> k, v |-> v]
TasksOf(o) == {t \in tasks : t.op = o}
\* promise.nodeify(cb): cb runs once the promise has settled.
NodeifyTasks(cb, o, p) == IF cb THEN {Task(o, "nodeify", p)} ELSE {}
\* What nodeify hands to cb as its error argument.
NodeifyArg(pr) == IF pr.st = "resolved" THEN Null ELSE pr.val

Call(fn, a, b) == [fn |-> fn, a |-> a, b |-> b, res |-> "pending"]
Issued(log, call) == Append(log, call)
Completed(log, res) == [log EXCEPT ![Len(log)].res = res]
HasCall(o, fn) == \E i \in 1..Len(calls[o]) : calls[o][i].fn = fn
CallResult(o, fn, res) ==
  \E i \in 1..Len(calls[o]) : calls[o][i].fn = fn /\ calls[o][i].res = res

----------------------------------------------------------------------------
\* Construction.

buildConnection(cfg) ==
  LET serverOptions == [auth |-> [user |-> cfg.user, password |-> cfg.password]]
      srv == [id |-> 1, options |-> serverOptions]
  IN  [server |-> srv, database |-> [id |-> 1, serverConfig |-> srv]]

\* A constructor that opens the connection.
InitOpening ==
  /\ config \in [user : Users, password : Passwords]
  /\ server = buildConnection(config).server
  /\ database = buildConnection(config).database
  /\ connected = FALSE
  /\ callers \in {"single", "concurrent"}
  /\ promise = [p \in Promises |-> NoPromise]
  /\ cbGiven = [o \in Ops |-> FALSE]
  /\ cbLog = [o \in Ops |-> <<>>]
  /\ calls = [o \in Ops |->
                IF o = "open" THEN <<Call("open", Undefined, Undefined)>>
                ELSE <<>>]
  /\ args = [o \in Ops |-> JsArray(<<>>)]
  /\ tasks = {Task("open", "openAsync", Undefined)}
  /\ history = <<>>

Init ==
  /\ config \in [user : Users, password : Passwords]
  /\ server = buildConnection(config).server
  /\ database = buildConnection(config).database
  /\ connected = FALSE
  /\ callers \in {"single", "concurrent"}
  /\ promise = [p \in Promises |-> NoPromise]
  /\ cbGiven = [o \in Ops |-> FALSE]
  /\ cbLog = [o \in Ops |-> <<>>]
  /\ calls = [o \in Ops |-> <<>>]
  /\ args = [o \in Ops |-> JsArray(<<>>)]
  /\ tasks = {}
  /\ history = <<>>

\* Public call o has no handler left to run: it has not been made, has
\* settled, or waits on a promise nothing will settle.
Quiet(o) == TasksOf(o) = {}
InFlight == {o \in Ops : ~Quiet(o)}

\* Calls made through a per-instance lock that lets one schema operation
\* run at a time.
CanCallSerialized(o) ==
  /\ Quiet(o)
  /\ Cardinality(InFlight) < MaxInFlight
  /\ callers = "single" => tasks = {}
  /\ o \in {"createCollection", "dropCollection"} =>
       InFlight \cap {"createCollection", "dropCollection"} = {}

\* A caller may make public call o now.
CanCall(o) ==
  /\ Quiet(o)
  /\ Cardinality(InFlight) < MaxInFlight
  /\ callers = "single" => tasks = {}

\* The slot a promise belongs to.
SlotOf(p) ==
  IF p = "open.authenticate" THEN "open"
  ELSE IF p = "createCollection.ensureIndexes" THEN "createCollection"
  ELSE p

\* Call open has run to its end with every driver call it made succeeding,
\* and call close likewise.
OpenedOk ==
  /\ Quiet("open")
  /\ CallResult("open", "open", "ok")
  /\ \A i \in 1..Len(calls["open"]) : calls["open"][i].res = "ok"
ClosedOk ==
  /\ Quiet("close")
  /\ CallResult("close", "close", "ok")
Succeeded(o) == IF o = "open" THEN OpenedOk ELSE ClosedOk

\* The history once a caller makes call o: o continues the run when the
\* run's last call succeeded, starts a new run otherwise; a call other than
\* open and close ends the run.  Only the last MaxHistory calls are kept.
Continued(o) ==
  IF callers # "single" \/ o \notin {"open", "close"} THEN <<>>
  ELSE IF history # <<>> /\ Succeeded(history[Len(history)])
  THEN LET h == Append(history, o)
       IN  IF Len(h) > MaxHistory THEN Tail(h) ELSE h
  ELSE <<o>>

\* A public call that builds the handles anew.
BeginRebuilding(o, cb, pr, first, ts, indexes) ==
  /\ promise' = [p \in Promises |->
                   IF p = o THEN pr
                   ELSE IF Quiet(SlotOf(p)) THEN NoPromise
                   ELSE promise[p]]
  /\ cbGiven' = [x \in Ops |->
                   IF x = o THEN cb ELSE IF Quiet(x) THEN FALSE ELSE cbGiven[x]]
  /\ cbLog' = [x \in Ops |->
                  IF x = o \/ Quiet(x) THEN <<>> ELSE cbLog[x]]
  /\ calls' = [x \in Ops |->
                  IF x = o THEN first ELSE IF Quiet(x) THEN <<>> ELSE calls[x]]
  /\ args' = [x \in Ops |->
                 IF x = o THEN JsArray(indexes)
                 ELSE IF Quiet(x) THEN JsArray(<<>>) ELSE args[x]]
  /\ tasks' = tasks \cup ts
  /\ history' = Continued(o)
  /\ server' = [server EXCEPT !.id = 2]
  /\ database' = [database EXCEPT !.id = 2]
  /\ UNCHANGED <<config, connected, callers>>

\* The state public call o starts from: pr the promise it returns, first
\* the driver calls it issues before it returns, ts the handlers it leaves
\* waiting, indexes its indexes argument.  The records of earlier calls
\* that have no handler left are dropped: nothing acts on them any more.
Begin(o, cb, pr, first, ts, indexes) ==
  /\ promise' = [p \in Promises |->
                   IF p = o THEN pr
                   ELSE IF Quiet(SlotOf(p)) THEN NoPromise
                   ELSE promise[p]]
  /\ cbGiven' = [x \in Ops |->
                   IF x = o THEN cb ELSE IF Quiet(x) THEN FALSE ELSE cbGiven[x]]
  /\ cbLog' = [x \in Ops |->
                  IF x = o \/ Quiet(x) THEN <<>> ELSE cbLog[x]]
  /\ calls' = [x \in Ops |->
                  IF x = o THEN first ELSE IF Quiet(x) THEN <<>> ELSE calls[x]]
  /\ args' = [x \in Ops |->
                 IF x = o THEN JsArray(indexes)
                 ELSE IF Quiet(x) THEN JsArray(<<>>) ELSE args[x]]
  /\ tasks' = tasks \cup ts
  /\ history' = Continued(o)
  /\ UNCHANGED <<config, server, database, connected, callers>>

----------------------------------------------------------------------------
\* close(cb)

Close ==
  \E cb \in BOOLEAN :
    /\ CanCall("close")
    /\ Begin("close", cb, Pending, <<Call("close", Undefined, Undefined)>>,
             {Task("close", "closeAsync", Undefined)}, <<>>)

\* close refusing a connection that is not open.
CloseDoneStrict ==
  /\ Task("close", "closeAsync", Undefined) \in tasks
  /\ connected' = FALSE
  /\ calls' = [calls EXCEPT !["close"] =
                 Completed(@, IF connected THEN "ok" ELSE "CloseError")]
  /\ promise' = IF connected THEN Resolve(promise, "close", Undefined)
                ELSE Reject(promise, "close", "CloseError")
  /\ tasks' = (tasks \ {Task("close", "closeAsync", Undefined)})
                \cup NodeifyTasks(cbGiven["close"], "close", "close")
  /\ UNCHANGED <<config, history, server, database, callers, cbGiven,
                 cbLog, args>>

CloseDone ==
  /\ Task("close", "closeAsync", Undefined) \in tasks
  /\ connected' = FALSE
  /\ calls' = [calls EXCEPT !["close"] = Completed(@, "ok")]
  /\ promise' = Resolve(promise, "close", Undefined)
  /\ tasks' = (tasks \ {Task("close", "closeAsync", Undefined)})
                \cup NodeifyTasks(cbGiven["close"], "close", "close")
  /\ UNCHANGED <<config, history, server, database, callers, cbGiven, cbLog,
                 args>>

\* The caller's cb, run by nodeify with the settled promise's outcome.
Nodeify ==
  \E t \in tasks :
    /\ t.k = "nodeify"
    /\ promise[t.v].st \in {"resolved", "rejected"}
    /\ cbLog' = [cbLog EXCEPT ![t.op] = Append(@, NodeifyArg(promise[t.v]))]
    /\ tasks' = tasks \ {t}
    /\ UNCHANGED <<config, history, server, database, connected, callers,
                   promise, cbGiven, calls, args>>

----------------------------------------------------------------------------
\* authenticate(cb), called by a caller (slot "authenticate") or by open's
\* handler (slot "open").

\* authenticate skipping the driver when either credential is missing.
authenticateSkipPartial(s, cb) ==
  LET options == database.serverConfig.options
      user == Or(options.auth.user, "")
      password == Or(options.auth.password, "")
  IN  IF Falsy(options.auth.user) \/ Falsy(options.auth.password)
      THEN [p |-> [st |-> "resolved", val |-> Undefined],
            calls |-> <<>>,
            tasks |-> NodeifyTasks(cb, s, AuthP(s))]
      ELSE [p |-> Pending,
            calls |-> <<Call("authenticate", user, password)>>,
            tasks |-> {Task(s, "authenticateAsync", Undefined)}]

\* authenticate with the early return lost: resolve() and carry on.
authenticateNoReturn(s, cb) ==
  LET options == database.serverConfig.options
      user == Or(options.auth.user, "")
      password == Or(options.auth.password, "")
  IN  IF Falsy(options.auth.user) /\ Falsy(options.auth.password)
      THEN [p |-> [st |-> "resolved", val |-> Undefined],
            calls |-> <<Call("authenticate", user, password)>>,
            tasks |-> NodeifyTasks(cb, s, AuthP(s))
                        \cup {Task(s, "authenticateAsync", Undefined)}]
      ELSE [p |-> Pending,
            calls |-> <<Call("authenticate", user, password)>>,
            tasks |-> {Task(s, "authenticateAsync", Undefined)}]

\* The body of authenticate up to its return: the promise it returns, the
\* driver calls it issues and the handlers it leaves waiting.
authenticate(s, cb) ==
  LET options == database.serverConfig.options
      user == Or(options.auth.user, "")
      password == Or(options.auth.password, "")
  IN  IF Falsy(options.auth.user) /\ Falsy(options.auth.password)
      THEN [p |-> [st |-> "resolved", val |-> Undefined],
            calls |-> <<>>,
            tasks |-> NodeifyTasks(cb, s, AuthP(s))]
      ELSE [p |-> Pending,
            calls |-> <<Call("authenticate", user, password)>>,
            tasks |-> {Task(s, "authenticateAsync", Undefined)}]

\* The value authenticate rejects with, given what .error received.
AuthRejection(err) == IF ~Falsy(err) THEN err ELSE GenericAuthError

\* open without its .error handler.
OpenChainSwallow(s, P) == P

\* open's .error handler, reached through the promise authenticate
\* returned: .error runs for operational rejections only.
OpenChain(s, P) ==
  IF /\ s = "open"
     /\ P["open.authenticate"].st = "rejected"
     /\ IsOperational(P["open.authenticate"].val)
  THEN Reject(P, "open", P["open.authenticate"].val)
  ELSE P

Authenticate ==
  \E cb \in BOOLEAN :
    LET a == authenticate("authenticate", cb)
    IN  /\ CanCall("authenticate")
        /\ Begin("authenticate", cb, a.p, a.calls, a.tasks, <<>>)

\* authenticateAsync succeeded: resolve().
AuthSucceeded(s) ==
  LET t == Task(s, "authenticateAsync", Undefined)
  IN  /\ t \in tasks
      /\ calls' = [calls EXCEPT ![s] = Completed(@, "ok")]
      /\ promise' = OpenChain(s, Resolve(promise, AuthP(s), Undefined))
      /\ tasks' = (tasks \ {t}) \cup NodeifyTasks(cbGiven[s], s, AuthP(s))
      /\ UNCHANGED <<config, history, server, database, connected, callers,
                     cbGiven, cbLog, args>>

\* The .error handler of authenticate rejecting before it closes.
AuthFailedRejectFirst(s) ==
  LET t == Task(s, "authenticateAsync", Undefined)
  IN  /\ t \in tasks
      /\ calls' = [calls EXCEPT ![s] =
                     Issued(Completed(@, AuthError),
                            Call("close", Undefined, Undefined))]
      /\ promise' = OpenChain(s, Reject(promise, AuthP(s), AuthRejection(AuthError)))
      /\ tasks' = ((tasks \ {t}) \cup {Task(s, "authClosed", AuthError)})
                    \cup NodeifyTasks(cbGiven[s], s, AuthP(s))
      /\ UNCHANGED <<config, history, server, database, connected, callers,
                     cbGiven, cbLog, args>>

\* authenticateAsync failed: self.close(function() {...}).
AuthFailed(s) ==
  LET t == Task(s, "authenticateAsync", Undefined)
  IN  /\ t \in tasks
      /\ calls' = [calls EXCEPT ![s] =
                     Issued(Completed(@, AuthError),
                            Call("close", Undefined, Undefined))]
      /\ tasks' = (tasks \ {t}) \cup {Task(s, "authClosed", AuthError)}
      /\ UNCHANGED <<config, history, server, database, connected, callers,
                     promise, cbGiven, cbLog, args>>

\* The callback given to close: reject(err), or the generic error.
AuthClosed(s) ==
  \E t \in tasks :
    /\ t.op = s /\ t.k = "authClosed"
    /\ connected' = FALSE
    /\ calls' = [calls EXCEPT ![s] = Completed(@, "ok")]
    /\ promise' = OpenChain(s, Reject(promise, AuthP(s), AuthRejection(t.v)))
    /\ tasks' = ((tasks \ {t}) \cup NodeifyTasks(cbGiven[s], s, AuthP(s)))
                  \cup (IF s = "open" /\ promise'["open"].st = "rejected"
                        THEN NodeifyTasks(cbGiven[s], "open", "open")
                        ELSE {})
    /\ UNCHANGED <<config, history, server, database, callers, cbGiven,
                   cbLog, args>>

----------------------------------------------------------------------------
\* open(cb)

Open ==
  \E cb \in BOOLEAN :
    /\ CanCall("open")
    /\ Begin("open", cb, Pending, <<Call("open", Undefined, Undefined)>>,
             {Task("open", "openAsync", Undefined)}, <<>>)

\* openAsync succeeded: return self.authenticate(cb).
OpenOpened ==
  LET t == Task("open", "openAsync", Undefined)
      a == authenticate("open", cbGiven["open"])
  IN  /\ t \in tasks
      /\ connected' = TRUE
      /\ calls' = [calls EXCEPT !["open"] = Completed(@, "ok") \o a.calls]
      /\ promise' = [promise EXCEPT !["open.authenticate"] = a.p]
      /\ tasks' = (tasks \ {t}) \cup a.tasks
      /\ UNCHANGED <<config, history, server, database, callers, cbGiven,
                     cbLog, args>>

\* openAsync failed: .error(function(err) { reject(err); }).
OpenFailed ==
  LET t == Task("open", "openAsync", Undefined)
  IN  /\ t \in tasks
      /\ calls' = [calls EXCEPT !["open"] = Completed(@, OpenError)]
      /\ promise' = Reject(promise, "open", OpenError)
      /\ tasks' = (tasks \ {t}) \cup NodeifyTasks(cbGiven["open"], "open", "open")
      /\ UNCHANGED <<config, history, server, database, connected, callers,
                     cbGiven, cbLog, args>>

----------------------------------------------------------------------------
\* ensureIndexes(collection, indexes, cb), called by a caller (slot
\* "ensureIndexes") or by createCollection's handler.

\* createIndex(item): the driver call it makes.
createIndex(item) ==
  Call("ensureIndex", Prop(item, "index"), Prop(item, "options"))

\* Promise.all(indexes).then(createIndex): Promise.all resolves to the
\* array, and then() hands it to createIndex as one value.
ensureIndexes(indexes) == <<createIndex(indexes)>>

\* How collection.ensureIndex(index, options), called without a callback,
\* may end: the source does not decide what the driver does with an
\* undefined definition.
EnsureIndexOutcomes(index) ==
  IF index = Undefined THEN {"ok", IndexError(Undefined)}
  ELSE IF index \in BadIndexes THEN {IndexError(index)}
  ELSE {"ok"}

EnsureIndexes ==
  \E cb \in BOOLEAN, indexes \in IndexLists :
    /\ CanCall("ensureIndexes")
    /\ Begin("ensureIndexes", cb, Pending, <<>>,
             {Task("ensureIndexes", "createIndex", Undefined)}, indexes)

\* The then() handler of ensureIndexes.  A thrown error is not operational,
\* so in createCollection it reaches the nodeify callback only, never the
\* .error handler.
CreateIndex(s) ==
  LET t == Task(s, "createIndex", Undefined)
      todo == ensureIndexes(args[s])
  IN  /\ t \in tasks
      /\ \E res \in EnsureIndexOutcomes(todo[1].a) :
           /\ calls' = [calls EXCEPT ![s] =
                          Issued(@, [todo[1] EXCEPT !.res = res])]
           /\ promise' = IF res = "ok"
                         THEN Resolve(promise, EnsureP(s), Undefined)
                         ELSE Reject(promise, EnsureP(s), res)
      /\ tasks' = (tasks \ {t}) \cup
                    (IF s = "createCollection"
                     THEN {Task(s, "ensureCb", EnsureP(s))}
                     ELSE NodeifyTasks(cbGiven[s], s, EnsureP(s)))
      /\ UNCHANGED <<config, history, server, database, connected, callers,
                     cbGiven, cbLog, args>>

----------------------------------------------------------------------------
\* createCollection(name, collection, cb)

CreateCollection ==
  \E cb \in BOOLEAN, indexes \in IndexLists :
    /\ CanCall("createCollection")
    /\ Begin("createCollection", cb, Pending,
             <<Call("open", Undefined, Undefined)>>,
             {Task("createCollection", "openAsync", Undefined)}, indexes)

\* openAsync succeeded: createCollectionAsync(name).
CCOpened ==
  LET t == Task("createCollection", "openAsync", Undefined)
  IN  /\ t \in tasks
      /\ connected' = TRUE
      /\ calls' = [calls EXCEPT !["createCollection"] =
                     Issued(Completed(@, "ok"),
                            Call("createCollection", Undefined, Undefined))]
      /\ tasks' = (tasks \ {t})
                    \cup {Task("createCollection", "createCollectionAsync", Undefined)}
      /\ UNCHANGED <<config, history, server, database, callers, promise,
                     cbGiven, cbLog, args>>

\* createCollection going on to create the collection after a failed open.
CCOpenFailedProceeds ==
  LET t == Task("createCollection", "openAsync", Undefined)
  IN  /\ t \in tasks
      /\ calls' = [calls EXCEPT !["createCollection"] =
                     Issued(Completed(@, OpenError),
                            Call("createCollection", Undefined, Undefined))]
      /\ tasks' = (tasks \ {t})
                    \cup {Task("createCollection", "createCollectionAsync",
                                Undefined)}
      /\ UNCHANGED <<config, history, server, database, connected, callers,
                     promise, cbGiven, cbLog, args>>

\* openAsync failed: the then() at line 50 has no rejection handler.
CCOpenFailed ==
  LET t == Task("createCollection", "openAsync", Undefined)
  IN  /\ t \in tasks
      /\ calls' = [calls EXCEPT !["createCollection"] = Completed(@, OpenError)]
      /\ tasks' = tasks \ {t}
      /\ UNCHANGED <<config, history, server, database, connected, callers,
                     promise, cbGiven, cbLog, args>>

\* createCollectionAsync succeeded: self.ensureIndexes(result, indexes, cb').
CCCreated ==
  LET t == Task("createCollection", "createCollectionAsync", Undefined)
  IN  /\ t \in tasks
      /\ calls' = [calls EXCEPT !["createCollection"] = Completed(@, "ok")]
      /\ promise' = [promise EXCEPT !["createCollection.ensureIndexes"] = Pending]
      /\ tasks' = (tasks \ {t})
                    \cup {Task("createCollection", "createIndex", Undefined)}
      /\ UNCHANGED <<config, history, server, database, connected, callers,
                     cbGiven, cbLog, args>>

\* The .error handler of createCollection rejecting before it closes.
CCCreateFailedRejectFirst ==
  LET t == Task("createCollection", "createCollectionAsync", Undefined)
  IN  /\ t \in tasks
      /\ calls' = [calls EXCEPT !["createCollection"] =
                     Issued(Completed(@, CreateError),
                            Call("close", Undefined, Undefined))]
      /\ promise' = Reject(promise, "createCollection", CreateError)
      /\ tasks' = ((tasks \ {t})
                     \cup {Task("createCollection", "closed", CreateError)})
                    \cup NodeifyTasks(cbGiven["createCollection"],
                                      "createCollection", "createCollection")
      /\ UNCHANGED <<config, history, server, database, connected, callers,
                     cbGiven, cbLog, args>>

\* createCollectionAsync failed: .error, which calls self.close().
CCCreateFailed ==
  LET t == Task("createCollection", "createCollectionAsync", Undefined)
  IN  /\ t \in tasks
      /\ calls' = [calls EXCEPT !["createCollection"] =
                     Issued(Completed(@, CreateError),
                            Call("close", Undefined, Undefined))]
      /\ tasks' = (tasks \ {t})
                    \cup {Task("createCollection", "closed", CreateError)}
      /\ UNCHANGED <<config, history, server, database, connected, callers,
                     promise, cbGiven, cbLog, args>>

\* The callback createCollection hands to ensureIndexes; nodeify runs it
\* when the promise of ensureIndexes settles, resolved or rejected.
CCEnsureCb ==
  LET t == Task("createCollection", "ensureCb", "createCollection.ensureIndexes")
      err == NodeifyArg(promise["createCollection.ensureIndexes"])
  IN  /\ t \in tasks
      /\ calls' = [calls EXCEPT !["createCollection"] =
                     Issued(@, Call("close", Undefined, Undefined))]
      /\ tasks' = (tasks \ {t}) \cup {Task("createCollection", "closed", err)}
      /\ UNCHANGED <<config, history, server, database, connected, callers,
                     promise, cbGiven, cbLog, args>>

\* close() completed: .then(function() { reject(err); }).
CCClosed ==
  \E t \in tasks :
    /\ t.op = "createCollection" /\ t.k = "closed"
    /\ connected' = FALSE
    /\ calls' = [calls EXCEPT !["createCollection"] = Completed(@, "ok")]
    /\ promise' = Reject(promise, "createCollection", t.v)
    /\ tasks' = (tasks \ {t})
                  \cup NodeifyTasks(cbGiven["createCollection"],
                                    "createCollection", "createCollection")
    /\ UNCHANGED <<config, history, server, database, callers, cbGiven,
                   cbLog, args>>

----------------------------------------------------------------------------
\* dropCollection(name, cb)

DropCollection ==
  \E cb \in BOOLEAN :
    /\ CanCall("dropCollection")
    /\ Begin("dropCollection", cb, Pending,
             <<Call("open", Undefined, Undefined)>>,
             {Task("dropCollection", "openAsync", Undefined)}, <<>>)

\* openAsync succeeded: dropCollectionAsync(name).
DCOpened ==
  LET t == Task("dropCollection", "openAsync", Undefined)
  IN  /\ t \in tasks
      /\ connected' = TRUE
      /\ calls' = [calls EXCEPT !["dropCollection"] =
                     Issued(Completed(@, "ok"),
                            Call("dropCollection", Undefined, Undefined))]
      /\ tasks' = (tasks \ {t})
                    \cup {Task("dropCollection", "dropCollectionAsync", Undefined)}
      /\ UNCHANGED <<config, history, server, database, callers, promise,
                     cbGiven, cbLog, args>>

\* openAsync failed: the then() at line 92 has no rejection handler.
DCOpenFailed ==
  LET t == Task("dropCollection", "openAsync", Undefined)
  IN  /\ t \in tasks
      /\ calls' = [calls EXCEPT !["dropCollection"] = Completed(@, OpenError)]
      /\ tasks' = tasks \ {t}
      /\ UNCHANGED <<config, history, server, database, connected, callers,
                     promise, cbGiven, cbLog, args>>

\* dropCollectionAsync succeeded: function(err) receives the result and
\* calls self.close().
DCDropped ==
  LET t == Task("dropCollection", "dropCollectionAsync", Undefined)
  IN  /\ t \in tasks
      /\ calls' = [calls EXCEPT !["dropCollection"] =
                     Issued(Completed(@, "ok"),
                            Call("close", Undefined, Undefined))]
      /\ tasks' = (tasks \ {t}) \cup {Task("dropCollection", "closed", DropResult)}
      /\ UNCHANGED <<config, history, server, database, connected, callers,
                     promise, cbGiven, cbLog, args>>

\* dropCollectionAsync failed: the then() at line 95 has no rejection
\* handler.
DCDropFailed ==
  LET t == Task("dropCollection", "dropCollectionAsync", Undefined)
  IN  /\ t \in tasks
      /\ calls' = [calls EXCEPT !["dropCollection"] = Completed(@, DropError)]
      /\ tasks' = tasks \ {t}
      /\ UNCHANGED <<config, history, server, database, connected, callers,
                     promise, cbGiven, cbLog, args>>

\* close() completed: .then(function() { reject(err); }).
DCClosed ==
  \E t \in tasks :
    /\ t.op = "dropCollection" /\ t.k = "closed"
    /\ connected' = FALSE
    /\ calls' = [calls EXCEPT !["dropCollection"] = Completed(@, "ok")]
    /\ promise' = Reject(promise, "dropCollection", t.v)
    /\ tasks' = (tasks \ {t})
                  \cup NodeifyTasks(cbGiven["dropCollection"],
                                    "dropCollection", "dropCollection")
    /\ UNCHANGED <<config, history, server, database, callers, cbGiven,
                   cbLog, args>>

----------------------------------------------------------------------------
AuthSucceededDirect == AuthSucceeded("authenticate")
AuthFailedDirect == AuthFailed("authenticate")
AuthClosedDirect == AuthClosed("authenticate")
OpenAuthSucceeded == AuthSucceeded("open")
OpenAuthFailed == AuthFailed("open")
OpenAuthClosed == AuthClosed("open")
EnsureCreateIndex == CreateIndex("ensureIndexes")
CCCreateIndex == CreateIndex("createCollection")

Next ==
  \/ Open
  \/ OpenOpened
  \/ OpenFailed
  \/ OpenAuthSucceeded
  \/ OpenAuthFailed
  \/ OpenAuthClosed
  \/ Authenticate
  \/ AuthSucceededDirect
  \/ AuthFailedDirect
  \/ AuthClosedDirect
  \/ EnsureIndexes
  \/ EnsureCreateIndex
  \/ CreateCollection
  \/ CCOpened
  \/ CCOpenFailed
  \/ CCCreated
  \/ CCCreateFailed
  \/ CCCreateIndex
  \/ CCEnsureCb
  \/ CCClosed
  \/ DropCollection
  \/ DCOpened
  \/ DCOpenFailed
  \/ DCDropped
  \/ DCDropFailed
  \/ DCClosed
  \/ Close
  \/ CloseDone
  \/ Nodeify

\* Any callers, and a single caller that makes a call only when none is in
\* flight.
Spec == Init /\ [][Next]_vars
InitSingle == Init /\ callers = "single"
SpecSingle == InitSingle /\ [][Next]_vars

----------------------------------------------------------------------------
\* Properties.

\* The driver calls of kind fn that call o issued, in order.
CallsOf(o, fn) == SelectSeq(calls[o], LAMBDA c : c.fn = fn)
\* Some driver call of call o ended with an error.
DriverFailed(o) ==
  \E i \in 1..Len(calls[o]) : calls[o][i].res \notin {"ok", "pending"}
\* The caller's cb of call o has received an error.
CbGotError(o) == \E i \in 1..Len(cbLog[o]) : ~Falsy(cbLog[o][i])
Anonymous == Falsy(config.user) /\ Falsy(config.password)

\* C1: createCollection tears down before it reports failure.  With a
\* single caller, whenever createCollection's result is rejected, or its
\* callback has been invoked, the close it issued has completed and the
\* connection is closed; a failed creation or index-ensure call is followed
\* by a close call before any rejection.
C1_TeardownBeforeFailure ==
  LET cc == "createCollection"
  IN  /\ promise[cc].st = "rejected" =>
           ~connected /\ CallResult(cc, "close", "ok")
      /\ cbLog[cc] # <<>> =>
           ~connected /\ promise[cc].st = "rejected"
      /\ (DriverFailed(cc) /\ promise[cc].st = "rejected") =>
           promise[cc].val = calls[cc][Len(calls[cc]) - 1].res
C1_Witness ==
  /\ CallResult("createCollection", "createCollection", CreateError)
  /\ promise["createCollection"] = [st |-> "rejected", val |-> CreateError]
  /\ cbLog["createCollection"] = <<CreateError>>
  /\ ~connected

\* C2: no error is swallowed.  For open, authenticate, createCollection and
\* dropCollection: once the call has no handler left to run, if one of its
\* driver calls failed then its result is rejected and, when a callback was
\* passed, the callback has received an error.
C2_NoErrorSwallowed ==
  \A o \in {"open", "authenticate", "createCollection", "dropCollection"} :
    (Quiet(o) /\ DriverFailed(o)) =>
      /\ promise[o].st = "rejected"
      /\ cbGiven[o] => CbGotError(o)

\* C3: open() resolves on success.  Once open has no handler left to run,
\* if the transport opened and authentication succeeded or was skipped for
\* want of credentials, the result of open() is resolved.
C3_OpenResolves ==
  ( /\ Quiet("open")
    /\ CallResult("open", "open", "ok")
    /\ \/ CallResult("open", "authenticate", "ok")
       \/ (Anonymous /\ ~HasCall("open", "authenticate")) )
  => promise["open"].st = "resolved"

\* C4: open() failure.  If the transport-open call failed, authenticate is
\* never called and open's result is rejected with that error; if the
\* authentication call failed, then once the close that follows it has
\* completed open's result is rejected with the authentication error; in
\* neither case is the result resolved.
C4_OpenFailure ==
  /\ CallResult("open", "open", OpenError) =>
       /\ ~HasCall("open", "authenticate")
       /\ promise["open.authenticate"].st = "none"
       /\ promise["open"] = [st |-> "rejected", val |-> OpenError]
  /\ (CallResult("open", "authenticate", AuthError)
        /\ CallResult("open", "close", "ok")) =>
       promise["open"] = [st |-> "rejected", val |-> AuthError]
  /\ DriverFailed("open") => promise["open"].st # "resolved"
C4_Witness ==
  /\ CallResult("open", "open", "ok")
  /\ CallResult("open", "authenticate", AuthError)
  /\ promise["open"] = [st |-> "rejected", val |-> AuthError]

\* C5: the anonymous path.  With neither user nor password configured,
\* every authenticate() (direct or made by open) returns a resolved promise,
\* issues no driver authenticate call and no close call.
C5_AnonymousPath ==
  Anonymous =>
    \A s \in AuthSlots :
      /\ promise[AuthP(s)].st \in {"none", "resolved"}
      /\ ~HasCall(s, "authenticate")
      /\ ~HasCall(s, "close")
C5_Witness ==
  /\ Anonymous
  /\ promise["authenticate"].st = "resolved"
  /\ cbLog["authenticate"] = <<Null>>

\* C6: authentication failure.  When the driver's authentication call has
\* failed, authenticate() issues a close; its promise is not rejected until
\* that close has completed, is rejected once it has, and is rejected with
\* the driver's error.
C6_AuthFailure ==
  \A s \in AuthSlots :
    CallResult(s, "authenticate", AuthError) =>
      /\ HasCall(s, "close")
      /\ promise[AuthP(s)].st = "rejected" <=> CallResult(s, "close", "ok")
      /\ promise[AuthP(s)].st = "rejected" => promise[AuthP(s)].val = AuthError
      /\ promise[AuthP(s)].st # "resolved"
C6_Witness ==
  /\ CallResult("authenticate", "authenticate", AuthError)
  /\ CallResult("authenticate", "close", "ok")
  /\ promise["authenticate"] = [st |-> "rejected", val |-> AuthError]
  /\ ~connected

\* C7: dropCollection always ends in close-then-reject.  Once a
\* dropCollection whose open call succeeded has no handler left to run,
\* whatever the drop call's outcome, its close has completed, the
\* connection is closed and its result is rejected.
C7_DropClosesThenRejects ==
  LET dc == "dropCollection"
  IN  (Quiet(dc) /\ CallResult(dc, "open", "ok")) =>
        /\ CallResult(dc, "close", "ok")
        /\ promise[dc].st = "rejected"

\* C8: createCollection's success path.  When the open, creation and
\* index-ensure calls all succeeded, createCollection issues no close and
\* does not reject its result.
C8_SuccessPathLeavesOpen ==
  LET cc == "createCollection"
  IN  ( /\ CallResult(cc, "open", "ok")
        /\ CallResult(cc, "createCollection", "ok")
        /\ CallResult(cc, "ensureIndex", "ok") )
      => /\ ~HasCall(cc, "close")
         /\ promise[cc].st # "rejected"

\* What applying every entry of an index list, in order, asks of the
\* driver.
Applied(indexes) ==
  [i \in 1..Len(indexes) |->
     [fn |-> "ensureIndex", a |-> indexes[i].index,
      b |-> indexes[i].options, res |-> "ok"]]

\* C9: ensureIndexes applies every spec.  When the promise of
\* ensureIndexes is resolved, the driver's ensureIndex has been called
\* exactly once per entry of the list, in order, each time with that
\* entry's index definition and options.
C9_EveryIndexApplied ==
  \A s \in EnsureSlots :
    promise[EnsureP(s)].st = "resolved" =>
      CallsOf(s, "ensureIndex") = Applied(args[s].elems)

\* The first entry of a list whose definition the server refuses, or 0.
FirstBad(indexes) ==
  IF \E i \in 1..Len(indexes) : indexes[i].index \in BadIndexes
  THEN CHOOSE i \in 1..Len(indexes) :
         /\ indexes[i].index \in BadIndexes
         /\ \A j \in 1..(i - 1) : indexes[j].index \notin BadIndexes
  ELSE 0

\* C10: ensureIndexes is fail-fast.  When the k-th entry is the first the
\* server refuses, then once the promise of ensureIndexes has settled it
\* is rejected with the k-th entry's error, and ensureIndex has been called
\* for the entries up to the k-th and for none after it.
C10_FailFast ==
  \A s \in EnsureSlots :
    LET indexes == args[s].elems
        k == FirstBad(indexes)
    IN  (k > 0 /\ promise[EnsureP(s)].st \in {"resolved", "rejected"}) =>
          /\ promise[EnsureP(s)] =
               [st |-> "rejected", val |-> IndexError(indexes[k].index)]
          /\ Len(CallsOf(s, "ensureIndex")) = k
          /\ \A i \in 1..k :
               /\ CallsOf(s, "ensureIndex")[i].a = indexes[i].index
               /\ CallsOf(s, "ensureIndex")[i].b = indexes[i].options

\* C11: lifecycle re-entry.  When a single caller has made open, then
\* close, then open again, each after the one before it succeeded, and the
\* driver calls of the second open have all succeeded, the second open's
\* result is resolved and the connection is open.
C11_RoundTrip ==
  (history = <<"open", "close", "open">> /\ OpenedOk) =>
    /\ promise["open"].st = "resolved"
    /\ connected

\* C12: close() is idempotent.  With a single caller, once a close() has
\* run to its end its result is resolved, its callback has received no
\* error and the connection is closed, whether the connection was open or
\* already closed when close() was called.
C12_CloseIdempotent ==
  (HasCall("close", "close") /\ Quiet("close")) =>
    /\ promise["close"] = [st |-> "resolved", val |-> Undefined]
    /\ \A i \in 1..Len(cbLog["close"]) : cbLog["close"][i] = Null
    /\ ~connected
C12_Witness ==
  /\ history = <<"close", "close">>
  /\ Quiet("close")
  /\ promise["close"].st = "resolved"
  /\ cbLog["close"] = <<Null>>
  /\ ~connected

\* Call x has closed the connection while call y, whose open succeeded, has
\* a later driver call waiting or about to be made.
RaceBy(x, y) ==
  /\ CallResult(x, "close", "ok")
  /\ CallResult(y, "open", "ok")
  /\ \E t \in TasksOf(y) :
       t.k \in {"createCollectionAsync", "dropCollectionAsync", "createIndex"}
  /\ ~connected

\* C13: concurrent schema operations race.  Nothing in the instance
\* serializes createCollection and dropCollection: while one of them is in
\* flight, concurrent callers can start the other; and the state in which
\* one has closed the connection under the other's pending driver call
\* arises among concurrent callers only.
C13_NothingSerializes ==
  /\ (callers = "concurrent" /\ InFlight = {"dropCollection"}) =>
       ENABLED CreateCollection
  /\ (callers = "concurrent" /\ InFlight = {"createCollection"}) =>
       ENABLED DropCollection
  /\ (\/ RaceBy("dropCollection", "createCollection")
      \/ RaceBy("createCollection", "dropCollection")) =>
       callers = "concurrent"
C13_Witness ==
  /\ RaceBy("dropCollection", "createCollection")
  /\ Task("createCollection", "createCollectionAsync", Undefined) \in tasks

\* C14: partial credentials.  Whenever authenticate() has run, it has
\* issued the driver's authenticate call unless both user and password are
\* unset, and every such call carries the configured user and password,
\* with the empty string in place of a missing one.
C14_PartialCredentials ==
  \A s \in AuthSlots :
    promise[AuthP(s)].st # "none" =>
      /\ HasCall(s, "authenticate") <=> ~Anonymous
      /\ \A i \in 1..Len(calls[s]) :
           calls[s][i].fn = "authenticate" =>
             /\ calls[s][i].a = (IF config.user = Undefined THEN "" ELSE config.user)
             /\ calls[s][i].b =
                  (IF config.password = Undefined THEN "" ELSE config.password)
C14_Witness ==
  /\ config = [user |-> Undefined, password |-> "secret"]
  /\ Len(calls["authenticate"]) > 0
  /\ calls["authenticate"][1].fn = "authenticate"
  /\ calls["authenticate"][1].a = ""
  /\ calls["authenticate"][1].b = "secret"

\* C15: handles are built once.  In every reachable state the server and
\* database handles are the ones the constructor built from the
\* configuration, and no step of any call changes the handles or the
\* configuration record.
C15_HandlesBuiltOnce ==
  /\ [](/\ server = buildConnection(config).server
        /\ database = buildConnection(config).database)
  /\ [][/\ server' = server
        /\ database' = database
        /\ config' = config]_vars
C15_Witness ==
  /\ history = <<"open", "close">>
  /\ ClosedOk
  /\ server = buildConnection(config).server
  /\ database = buildConnection(config).database
  /\ database.serverConfig = server

\* No public call has been made on the instance yet.
NoCallYet == \A p \in Promises : promise[p].st = "none"

\* C16: construction performs no I/O.  Until the first public call is made
\* the connection is not open, no driver call has been issued and no
\* handler is waiting.
C16_ConstructionNoIO ==
  NoCallYet =>
    /\ ~connected
    /\ \A o \in Ops : calls[o] = <<>>
    /\ tasks = {}
C16_Witness ==
  /\ NoCallYet
  /\ server = buildConnection(config).server
  /\ database = buildConnection(config).database
  /\ ~connected

\* The driver calls of call o other than close, and the order each public
\* call is to issue them in.
NonClose(o) == SelectSeq(calls[o], LAMBDA c : c.fn # "close")
Names(log) == [i \in 1..Len(log) |-> log[i].fn]
IsPrefix(a, b) == Len(a) <= Len(b) /\ a = SubSeq(b, 1, Len(a))
Order(o) ==
  IF o = "createCollection" THEN <<"open", "createCollection", "ensureIndex">>
  ELSE IF o = "dropCollection" THEN <<"open", "dropCollection">>
  ELSE <<"open", "authenticate">>

\* C17: driver-call ordering.  Apart from close, createCollection issues
\* open, createCollection, ensureIndex in that order, dropCollection open,
\* dropCollection, and open open, authenticate; each call is issued only
\* after the one before it succeeded; and no call but open and authenticate
\* issues the driver's authenticate.
C17_DriverCallOrder ==
  /\ \A o \in {"createCollection", "dropCollection", "open"} :
       /\ IsPrefix(Names(NonClose(o)), Order(o))
       /\ \A i \in 1..(Len(NonClose(o)) - 1) : NonClose(o)[i].res = "ok"
  /\ \A o \in Ops \ {"open", "authenticate"} : ~HasCall(o, "authenticate")
C17_Witness ==
  /\ ~Anonymous
  /\ Names(NonClose("createCollection")) = Order("createCollection")
  /\ ~HasCall("createCollection", "authenticate")

\* C18: the callback fires at most once.  For every public call, the
\* caller's callback has been invoked at most once.
C18_CallbackAtMostOnce ==
  \A o \in Ops : Len(cbLog[o]) <= 1

====
